---- MODULE Spec2Model ----
(***************************************************************************)
(* Ride scheduling backend (FastAPI + SQLAlchemy): the repository tables,  *)
(* the ScheduleManager operations and the HTTP handlers that wrap them.    *)
(*                                                                         *)
(* The database is the shared state.  A request handler reads the rows it  *)
(* needs, checks its guards, and then calls crud.update_ride_request; two  *)
(* handlers (two server workers on the same database file) interleave at   *)
(* that granularity: the reads and guards of a handler are one step, its   *)
(* write and its response are another.                                     *)
(***************************************************************************)
EXTENDS Integers, Sequences, FiniteSets, TLC

\* ---------------------------------------------------------------- bounds
MaxUsers == 1
MaxVolunteers == 1
MaxRides == 1
MaxPool == 2

\* The API clients whose requests may be in flight at the same time.
Callers == {"c1", "c2"}

\* Sample values of datetime.utcnow() and of the requested_time of a ride.
Times == {1, 2}
RequestedTimes == {1}

\* ------------------------------------------------------------ data model
\* None (Python) / NULL (a nullable column).  Ids and times start at 1.
NULL == 0

RideStatus == {"pending", "assigned", "in_progress", "completed", "cancelled"}

\* A RideUpdate field that was not given.  `status` is compared as a string.
NoStatus == "none"

\* The status of a ride that the handler did not read.
Unread == "unread"

\* HTTP status codes of the handlers.
HTTP_200_OK == 200
HTTP_201_CREATED == 201
HTTP_204_NO_CONTENT == 204
HTTP_400_BAD_REQUEST == 400
HTTP_404_NOT_FOUND == 404
HTTP_500_INTERNAL_SERVER_ERROR == 500

VARIABLES
    users,       \* ids of the rows of table users
    volunteers,  \* ids of the rows of table volunteers
    rides,       \* table ride_requests: id -> row
    call,        \* per caller: the request in flight, or the last response
    scenario,    \* the calls made so far on the ride created last
    maps_calls,  \* how often get_distance_and_duration has been called
    pool,        \* table volunteers with the columns matching would read
    found,       \* the last call of find_best_volunteer and what it returned
    listing,     \* the last GET /rides/ and what it returned
    view,        \* desktop client: the cards of ride_requests_view
    searching_cancelled,  \* standalone GUI: searching_cancelled["value"]
    page,        \* standalone GUI: the screen and the dialog of the page
    search       \* standalone GUI: the search threads started so far

vars ==
    <<users, volunteers, rides, call, scenario, maps_calls, pool, found,
      listing, view, searching_cancelled, page, search>>

\* The state of the two client programs.
clients == <<view, searching_cancelled, page, search>>

\* The page after show_start_screen(), with no dialog.
StartPage == [ screen |-> "start", dialog |-> "none" ]

\* Neither client has been used.
ClientsIdle ==
    /\ view = << >>
    /\ searching_cancelled = FALSE
    /\ page = StartPage
    /\ search = << >>

\* The result a handler returns when it returns no ride (None, or an error).
NoRide ==
    [ requester_id |-> NULL, requested_time |-> NULL, status |-> NoStatus,
      assigned_volunteer_id |-> NULL, assigned_time |-> NULL,
      completed_time |-> NULL, distance_km |-> NULL,
      estimated_duration_minutes |-> NULL ]

Max(S) == CHOOSE x \in S : \A y \in S : y <= x

\* INTEGER PRIMARY KEY of SQLite: the next rowid is the largest one plus one.
NextId(S) == IF S = {} THEN 1 ELSE Max(S) + 1

\* round(x, 2) of Python for x = n / scale: the nearest hundredth, a tie going
\* to the even one.  The result is in hundredths.
Round2(n, scale) ==
    LET hundredth == scale \div 100
        q == n \div hundredth
        r == n % hundredth
    IN IF 2 * r > hundredth \/ (2 * r = hundredth /\ q % 2 = 1)
       THEN q + 1 ELSE q

\* GoogleMapsService.get_distance_and_duration: mock_distance_km is
\* random.uniform(1, 30), mock_duration_minutes is the unrounded distance
\* times random.uniform(2, 4); both are rounded to two decimals on return.
\* The draws are in thousandths; the model draws the low end of both ranges.
Thousand == 1000
MockDistances == {1004}
MockRates == {2000}

\* Draws over the whole of the two ranges: the ends, a tie of the rounding
\* and values between.
DistanceDraws == {1000, 1004, 1005, 15555, 30000}
RateDraws == {2000, 2995, 4000}
\* The provider with a distance drawn from 0 km up, random.uniform(0, 30): not
\* what the source does.
get_distance_and_duration_from_zero ==
    { [distance_km |-> Round2(d, Thousand),
       estimated_duration_minutes |-> Round2(d * f, Thousand * Thousand)] :
        d \in {0}, f \in MockRates }

get_distance_and_duration ==
    { [distance_km |-> Round2(d, Thousand),
       estimated_duration_minutes |-> Round2(d * f, Thousand * Thousand)] :
        d \in MockDistances, f \in MockRates }

\* ------------------------------------------------------------------ crud
\* A lookup that finds a user whatever the id: not what the source does.
get_user_any(us, user_id) == TRUE

\* crud.get_user: the row is found, or None.
get_user(us, user_id) == user_id \in us

get_volunteer(vs, volunteer_id) == volunteer_id \in vs

\* crud.get_ride_request: the row, or None.
get_ride_request(rs, ride_request_id) ==
    IF ride_request_id \in DOMAIN rs THEN rs[ride_request_id] ELSE NoRide

\* create_ride_request stamping assigned_time as it stamps created_at: not
\* what the source does.
create_ride_request_stamped(rs, requester_id, requested_time, route) ==
    rs @@ (NextId(DOMAIN rs) :>
        [ requester_id |-> requester_id, requested_time |-> requested_time,
          status |-> "pending",
          assigned_volunteer_id |-> NULL, assigned_time |-> requested_time,
          completed_time |-> NULL, distance_km |-> route.distance_km,
          estimated_duration_minutes |-> route.estimated_duration_minutes ])

\* crud.create_ride_request: a new row with status pending.
create_ride_request(rs, requester_id, requested_time, route) ==
    rs @@ (NextId(DOMAIN rs) :>
        [ requester_id |-> requester_id, requested_time |-> requested_time,
          status |-> "pending",
          assigned_volunteer_id |-> NULL, assigned_time |-> NULL,
          completed_time |-> NULL, distance_km |-> route.distance_km,
          estimated_duration_minutes |-> route.estimated_duration_minutes ])

\* A RideUpdate: every field is optional.
RideUpdate(status, assigned_volunteer_id, assigned_time, completed_time) ==
    [ status |-> status, assigned_volunteer_id |-> assigned_volunteer_id,
      assigned_time |-> assigned_time, completed_time |-> completed_time ]

\* The fields of `data` that are not None, written over the row.
ApplyUpdate(row, data) ==
    [ row EXCEPT
        !.status = IF data.status = NoStatus THEN @ ELSE data.status,
        !.assigned_volunteer_id =
            IF data.assigned_volunteer_id = NULL THEN @
            ELSE data.assigned_volunteer_id,
        !.assigned_time =
            IF data.assigned_time = NULL THEN @ ELSE data.assigned_time,
        !.completed_time =
            IF data.completed_time = NULL THEN @ ELSE data.completed_time ]

\* An update that rebuilds the row from the body, losing the columns that
\* RideUpdate does not carry: not what the source does.
update_ride_request_replace(rs, ride_request_id, data) ==
    IF ride_request_id \in DOMAIN rs
    THEN LET row == ApplyUpdate(
                [rs[ride_request_id] EXCEPT
                    !.distance_km = NULL,
                    !.estimated_duration_minutes = NULL], data)
         IN [ raised |-> FALSE,
              rides |-> [rs EXCEPT ![ride_request_id] = row],
              row |-> row ]
    ELSE [ raised |-> FALSE, rides |-> rs, row |-> NoRide ]

\* update_ride_request as it would be with the row looked up first (the shape
\* of update_user and update_volunteer): not what the source does.
update_ride_request_bound(rs, ride_request_id, data) ==
    IF ride_request_id \in DOMAIN rs
    THEN [ raised |-> FALSE,
           rides |-> [rs EXCEPT ![ride_request_id] = ApplyUpdate(@, data)],
           row |-> ApplyUpdate(rs[ride_request_id], data) ]
    ELSE [ raised |-> FALSE, rides |-> rs, row |-> NoRide ]

\* An update without a WHERE clause, written over every row of the table: not
\* what the source does.
update_ride_request_every_row(rs, ride_request_id, data) ==
    [ raised |-> FALSE,
      rides |-> [r \in DOMAIN rs |-> ApplyUpdate(rs[r], data)],
      row |-> IF ride_request_id \in DOMAIN rs
              THEN ApplyUpdate(rs[ride_request_id], data) ELSE NoRide ]

\* crud.update_ride_request.  The function never binds db_ride_request: the
\* first setattr(db_ride_request, ...) raises NameError, and with no field
\* to set db.refresh(db_ride_request) raises it after an empty commit.  No
\* row is written; the exception leaves the handler as a 500 response.
update_ride_request(rs, ride_request_id, data) ==
    [ raised |-> TRUE, rides |-> rs, row |-> NoRide ]

\* crud.delete_ride_request: deletes the row if it exists.
delete_ride_request(rs, ride_request_id) ==
    IF ride_request_id \in DOMAIN rs
    THEN [ ok |-> TRUE,
           rides |-> [r \in DOMAIN rs \ {ride_request_id} |-> rs[r]] ]
    ELSE [ ok |-> FALSE, rides |-> rs ]

\* The parameters of crud.delete_ride_request, and the keywords with which
\* delete_ride_request_by_id calls it.  A call with a keyword that names no
\* parameter raises TypeError before the function body runs.
delete_ride_request_params == {"db", "ride_request_id"}
delete_ride_request_keywords == {"db", "ride_id"}
Binds(keywords, params) == keywords \subseteq params

\* crud.delete_volunteer: deletes the row if it exists.  The relationship
\* Volunteer.assigned_rides has no delete cascade, so the session sets
\* assigned_volunteer_id of the volunteer's rides to NULL before the delete.
delete_volunteer(vs, rs, volunteer_id) ==
    IF volunteer_id \in vs
    THEN [ ok |-> TRUE, volunteers |-> vs \ {volunteer_id},
           rides |-> [ r \in DOMAIN rs |->
                        IF rs[r].assigned_volunteer_id = volunteer_id
                        THEN [rs[r] EXCEPT !.assigned_volunteer_id = NULL]
                        ELSE rs[r] ] ]
    ELSE [ ok |-> FALSE, volunteers |-> vs, rides |-> rs ]

\* crud.create_volunteer: a new row of table volunteers.  Of its columns the
\* model keeps the two that matching would read: availability (the slots of
\* the comma-separated list) and current_location.
create_volunteer(vs, availability, current_location) ==
    vs @@ (NextId(DOMAIN vs) :>
        [ availability |-> availability,
          current_location |-> current_location ])

\* Ascending(S): the ids of S as a sequence in ascending order.
RECURSIVE Ascending(_)
Ascending(S) ==
    IF S = {} THEN << >>
    ELSE LET m == CHOOSE x \in S : \A y \in S : x <= y
         IN <<m>> \o Ascending(S \ {m})

\* The first `limit` elements of seq after the first `skip`.
Window(seq, skip, limit) ==
    SubSeq(seq, skip + 1,
           IF skip + limit < Len(seq) THEN skip + limit ELSE Len(seq))

\* Default skip and limit of the listing functions.
DefaultSkip == 0
DefaultLimit == 100

\* crud.get_volunteers: the ids of the rows, as SQLite scans the table (by
\* rowid), with offset and limit.
get_volunteers(vs, skip, limit) ==
    Window(Ascending(DOMAIN vs), skip, limit)

\* A listing that does not apply its status filter: not what the source does.
get_ride_requests_unfiltered(rs, status, skip, limit) ==
    Window(Ascending(DOMAIN rs), skip, limit)

\* crud.get_ride_requests: the ids of the rows, filtered by status if one is
\* given, with offset and limit.
get_ride_requests(rs, status, skip, limit) ==
    LET ids == IF status # NoStatus
               THEN {r \in DOMAIN rs : rs[r].status = status}
               ELSE DOMAIN rs
    IN Window(Ascending(ids), skip, limit)

\* ------------------------------------------------------ ScheduleManager
\* ScheduleManager.find_best_volunteer: the first row of crud.get_volunteers
\* with the default skip and limit, or None.  The ride request is only
\* printed; availability and current_location are not read.
find_best_volunteer(vs, ride_request) ==
    LET available_volunteers == get_volunteers(vs, DefaultSkip, DefaultLimit)
    IN IF available_volunteers # << >> THEN available_volunteers[1] ELSE NULL

\* assign_volunteer_to_ride without the check of the volunteer row: not what
\* the source does.
assign_guard_any_volunteer(ride_request, volunteer) ==
    /\ ride_request # NoRide
    /\ ride_request.status = "pending"

\* The guard of assign_volunteer_to_ride: both rows found, ride pending.
assign_guard(ride_request, volunteer) ==
    /\ ride_request # NoRide
    /\ volunteer
    /\ ride_request.status = "pending"

\* The guard of complete_ride: the ride found, assigned or in progress.
complete_guard(ride_request) ==
    /\ ride_request # NoRide
    /\ ride_request.status \in {"assigned", "in_progress"}

\* cancel_ride without the check that the ride was found: not what the
\* source does.
cancel_guard_unchecked(ride_request) ==
    ride_request.status # "completed"

\* The guard of cancel_ride: the ride found and not completed.
cancel_guard(ride_request) ==
    /\ ride_request # NoRide
    /\ ride_request.status # "completed"

\* Operations of which the assignment starts the ride instead of assigning it:
\* not what the source does.
update_data_started(op, volunteer_id, now) ==
    CASE op = "assign" -> RideUpdate("in_progress", volunteer_id, now, NULL)
      [] op = "complete" -> RideUpdate("completed", NULL, NULL, now)
      [] op = "cancel" -> RideUpdate("cancelled", NULL, NULL, NULL)

\* The RideUpdate each operation hands to crud.update_ride_request.
update_data(op, volunteer_id, now) ==
    CASE op = "assign" -> RideUpdate("assigned", volunteer_id, now, NULL)
      [] op = "complete" -> RideUpdate("completed", NULL, NULL, now)
      [] op = "cancel" -> RideUpdate("cancelled", NULL, NULL, NULL)

\* -------------------------------------------------------------- callers
\* A caller is idle, or between the read and the write of its call (the
\* call, the row it read), or holds the response of its last call.
\*   vol    the volunteer of an assignment that passed its guard
\*   seen   the status of the ride the handler read (NoStatus: no such ride)
\*   sent   the status a PUT body carried
\*   raced  another call on the same ride was in flight during this one
\*   body   the ride a 200 or 201 response returns
Idle ==
    [ phase |-> "idle", op |-> "none", ride |-> NULL, vol |-> NULL,
      seen |-> NoStatus, sent |-> NoStatus, raced |-> FALSE,
      code |-> NULL, body |-> NoRide ]

\* A call that passed its guard and is about to write.
Writing(op, ride_id, volunteer_id, seen, raced) ==
    [ phase |-> "write", op |-> op, ride |-> ride_id, vol |-> volunteer_id,
      seen |-> seen, sent |-> NoStatus, raced |-> raced,
      code |-> NULL, body |-> NoRide ]

\* The response of a finished call, with what the call was.
Done(op, ride_id, volunteer_id, seen, sent, raced, code, body) ==
    [ phase |-> "done", op |-> op, ride |-> ride_id, vol |-> volunteer_id,
      seen |-> seen, sent |-> sent, raced |-> raced,
      code |-> code, body |-> body ]

\* The other calls that are between their read and their write of ride_id.
InFlight(c, ride_id) ==
    { d \in Callers \ {c} : call[d].phase = "write" /\ call[d].ride = ride_id }

\* A handler of caller c reads ride_id: it overlaps the calls in flight on it.
MarkRaced(c, ride_id, mine) ==
    [ d \in Callers |->
        IF d = c THEN mine
        ELSE IF d \in InFlight(c, ride_id) THEN [call[d] EXCEPT !.raced = TRUE]
        ELSE call[d] ]

\* No call of find_best_volunteer yet.
NoFound ==
    [ asked |-> FALSE, requested_time |-> NULL, pickup_address |-> NULL,
      volunteer |-> NULL ]

\* No GET /rides/ yet.
NoListing ==
    [ asked |-> FALSE, status |-> NoStatus, skip |-> DefaultSkip,
      limit |-> DefaultSkip, rows |-> << >> ]

\* Scenarios A, B and D of the specification on the ride created last: one
\* call after the other, assign an existing volunteer, complete, cancel.
ScenarioD == <<"assign", "complete", "cancel">>

\* Scenarios A, B and C: assign an existing volunteer, then assign again.
ScenarioC == <<"assign", "assign">>
Scenarios == {ScenarioC, ScenarioD}
ScenarioOff == <<"off">>

\* No ride has been created yet.
NoScenario == [ride |-> NULL, calls |-> ScenarioOff]

\* The calls `calls` are the first calls of one of the scenarios.
StartsScenario(calls) ==
    \E sc \in Scenarios :
        /\ Len(calls) <= Len(sc)
        /\ \A i \in 1 .. Len(calls) : calls[i] = sc[i]

\* The scenario after a call on ride_id has returned.  `tag` is the call
\* made, whatever it answered: "assign" with an existing volunteer and the
\* ride id of the path in the body, "complete", "cancel"; any other tag is a
\* call that is not part of a scenario, or one that overlapped another.
ScenarioAfter(ride_id, tag) ==
    IF ride_id # scenario.ride \/ ride_id \notin DOMAIN rides THEN scenario
    ELSE [ scenario EXCEPT !.calls =
            IF @ # ScenarioOff /\ StartsScenario(Append(@, tag))
            THEN Append(@, tag)
            ELSE ScenarioOff ]

Init ==
    /\ users = {}
    /\ volunteers = {}
    /\ rides = << >>
    /\ call = [c \in Callers |-> Idle]
    /\ scenario = NoScenario
    /\ maps_calls = 0
    /\ pool = << >>
    /\ found = NoFound
    /\ listing = NoListing
    /\ ClientsIdle

\* ------------------------------------------------------------- handlers
\* POST /users/ (create_new_user).
CreateUser ==
    /\ NextId(users) <= MaxUsers
    /\ users' = users \cup {NextId(users)}
    /\ UNCHANGED <<volunteers, rides, call, scenario, maps_calls,
                 pool, found, listing, clients>>

\* POST /volunteers/ (create_new_volunteer).
CreateVolunteer ==
    /\ NextId(volunteers) <= MaxVolunteers
    /\ volunteers' = volunteers \cup {NextId(volunteers)}
    /\ pool' = create_volunteer(pool, {}, NULL)
    /\ UNCHANGED <<users, rides, call, scenario, maps_calls, found, listing,
                 clients>>

\* DELETE /volunteers/{volunteer_id} (delete_existing_volunteer).
DeleteVolunteer(volunteer_id) ==
    LET res == delete_volunteer(volunteers, rides, volunteer_id) IN
    /\ res.ok
    /\ volunteers' = res.volunteers
    /\ rides' = res.rides
    /\ pool' = [v \in res.volunteers |-> pool[v]]
    /\ UNCHANGED <<users, call, scenario, maps_calls, found, listing,
                 clients>>

\* POST /rides/ (request_new_ride, ScheduleManager.request_ride).
RequestRide(c, requester_id, requested_time) ==
    /\ call[c].phase # "write"
    /\ NextId(DOMAIN rides) <= MaxRides
    /\ IF ~get_user(users, requester_id)
       THEN /\ call' = [call EXCEPT ![c] =
                    Done("create", NULL, NULL, NoStatus, NoStatus, FALSE,
                         HTTP_400_BAD_REQUEST, NoRide)]
            /\ UNCHANGED <<rides, scenario, maps_calls, clients>>
       ELSE \E route \in get_distance_and_duration :
            LET id == NextId(DOMAIN rides)
                rs == create_ride_request(rides, requester_id,
                                          requested_time, route)
            IN /\ maps_calls' = maps_calls + 1
               /\ rides' = rs
               /\ scenario' = [ride |-> id, calls |-> << >>]
               /\ call' = [call EXCEPT ![c] =
                    Done("create", id, NULL, NoStatus, NoStatus, FALSE,
                         HTTP_201_CREATED, rs[id])]
    /\ UNCHANGED <<users, volunteers, pool, found, listing, clients>>

\* What a handler that stops at its guard answers: None from the service,
\* which the three handlers of main.py turn into a 400.
Rejected(c, op, ride_id, seen, tag) ==
    /\ call' = MarkRaced(c, ride_id,
            Done(op, ride_id, NULL, seen, NoStatus,
                 InFlight(c, ride_id) # {}, HTTP_400_BAD_REQUEST, NoRide))
    /\ scenario' = ScenarioAfter(ride_id,
            IF InFlight(c, ride_id) # {} THEN "raced" ELSE tag)
    /\ UNCHANGED <<users, volunteers, rides, maps_calls,
                 pool, found, listing, clients>>

\* A handler that passed its guard: its write is the next step of the call.
Accepted(c, op, ride_id, volunteer_id, seen) ==
    /\ call' = MarkRaced(c, ride_id,
            Writing(op, ride_id, volunteer_id, seen, InFlight(c, ride_id) # {}))
    /\ UNCHANGED <<users, volunteers, rides, scenario, maps_calls,
                 pool, found, listing, clients>>

\* An assign handler that does not compare the ride of the body with the ride
\* of the path: not what the source does.
AssignVolunteer_any_body(c, ride_id, body_ride_id, volunteer_id) ==
    LET ride_request == get_ride_request(rides, ride_id)
        volunteer == get_volunteer(volunteers, volunteer_id)
    IN /\ call[c].phase # "write"
       /\ IF assign_guard(ride_request, volunteer)
          THEN Accepted(c, "assign", ride_id, volunteer_id, ride_request.status)
          ELSE Rejected(c, "assign", ride_id, ride_request.status,
                        IF volunteer THEN "assign" ELSE "unknown")

\* POST /rides/{ride_id}/assign (assign_volunteer_to_ride_request) up to
\* the guards of ScheduleManager.assign_volunteer_to_ride.
AssignVolunteer(c, ride_id, body_ride_id, volunteer_id) ==
    LET ride_request == get_ride_request(rides, ride_id)
        volunteer == get_volunteer(volunteers, volunteer_id)
    IN /\ call[c].phase # "write"
       /\ IF body_ride_id # ride_id
          THEN Rejected(c, "assign", ride_id, Unread, "mismatch")
          ELSE IF assign_guard(ride_request, volunteer)
          THEN Accepted(c, "assign", ride_id, volunteer_id, ride_request.status)
          ELSE Rejected(c, "assign", ride_id, ride_request.status,
                        IF volunteer THEN "assign" ELSE "unknown")

\* POST /rides/{ride_id}/complete (complete_ride_request) up to the guards
\* of ScheduleManager.complete_ride.
CompleteRide(c, ride_id) ==
    LET ride_request == get_ride_request(rides, ride_id)
    IN /\ call[c].phase # "write"
       /\ IF complete_guard(ride_request)
          THEN Accepted(c, "complete", ride_id, NULL, ride_request.status)
          ELSE Rejected(c, "complete", ride_id, ride_request.status,
                        "complete")

\* POST /rides/{ride_id}/cancel (cancel_ride_request) up to the guards of
\* ScheduleManager.cancel_ride.
CancelRide(c, ride_id) ==
    LET ride_request == get_ride_request(rides, ride_id)
    IN /\ call[c].phase # "write"
       /\ IF cancel_guard(ride_request)
          THEN Accepted(c, "cancel", ride_id, NULL, ride_request.status)
          ELSE Rejected(c, "cancel", ride_id, ride_request.status, "cancel")

\* The response to what crud.update_ride_request did, in a handler whose
\* None is `none_code`: the exception, None, or the updated ride.
response_code(res, none_code) ==
    IF res.raised THEN HTTP_500_INTERNAL_SERVER_ERROR
    ELSE IF res.row = NoRide THEN none_code
    ELSE HTTP_200_OK

\* The rest of assign_volunteer_to_ride, complete_ride and cancel_ride: the
\* RideUpdate with datetime.utcnow(), crud.update_ride_request, the response.
\* After the commit the volunteer row is expired, and the print of
\* volunteer.name in assign_volunteer_to_ride reloads it: a row deleted in
\* the meantime raises there.
WriteUpdate(c) ==
    /\ call[c].phase = "write"
    /\ \E now \in Times :
        LET op == call[c].op
            ride_id == call[c].ride
            res == update_ride_request(rides, ride_id,
                                       update_data(op, call[c].vol, now))
            gone == /\ ~res.raised
                    /\ op = "assign"
                    /\ ~get_volunteer(volunteers, call[c].vol)
            code == IF gone THEN HTTP_500_INTERNAL_SERVER_ERROR
                    ELSE response_code(res, HTTP_400_BAD_REQUEST)
            tag == IF call[c].raced THEN "raced" ELSE op
        IN /\ rides' = res.rides
           /\ call' = [call EXCEPT ![c] =
                Done(op, ride_id, call[c].vol, call[c].seen, NoStatus,
                     call[c].raced, code,
                     IF code = HTTP_200_OK THEN res.row ELSE NoRide)]
           /\ scenario' = ScenarioAfter(ride_id, tag)
    /\ UNCHANGED <<users, volunteers, maps_calls,
                 pool, found, listing, clients>>

\* The bodies of PUT /rides/{ride_id} that the model sends.
RideUpdates ==
    { RideUpdate("completed", NULL, NULL, NULL),
      RideUpdate(NoStatus, NULL, 1, NULL),
      RideUpdate(NoStatus, NULL, NULL, 1) }

\* PUT /rides/{ride_id} (update_ride_request_details).
UpdateRideDetails(c, ride_id, data) ==
    LET res == update_ride_request(rides, ride_id, data)
        code == response_code(res, HTTP_404_NOT_FOUND)
    IN /\ call[c].phase # "write"
       /\ rides' = res.rides
       /\ call' = MarkRaced(c, ride_id,
            Done("update", ride_id, NULL,
                 get_ride_request(rides, ride_id).status, data.status,
                 InFlight(c, ride_id) # {}, code,
                 IF code = HTTP_200_OK THEN res.row ELSE NoRide))
       /\ scenario' = ScenarioAfter(ride_id, "update")
       /\ UNCHANGED <<users, volunteers, maps_calls,
                 pool, found, listing, clients>>

RideIds == 1 .. MaxRides
VolunteerIds == 1 .. MaxVolunteers
UserIds == 1 .. MaxUsers

Next ==
    \/ CreateUser
    \/ CreateVolunteer
    \/ \E v \in VolunteerIds : DeleteVolunteer(v)
    \/ \E c \in Callers, u \in UserIds, t \in RequestedTimes :
            RequestRide(c, u, t)
    \/ \E c \in Callers, r \in RideIds, v \in VolunteerIds :
            \E b \in {r, r + 1} : AssignVolunteer(c, r, b, v)
    \/ \E c \in Callers, r \in RideIds : CompleteRide(c, r)
    \/ \E c \in Callers, r \in RideIds : CancelRide(c, r)
    \/ \E c \in Callers : WriteUpdate(c)
    \/ \E c \in Callers, r \in RideIds, d \in RideUpdates :
            UpdateRideDetails(c, r, d)

Spec == Init /\ [][Next]_vars

\* ------------------------------------------------- listing and deleting
\* GET /rides/ and DELETE /rides/{ride_id}, followed from a repository with
\* a user, a volunteer and two pending rides requested for the same time,
\* together with the assignments of the volunteer to the rides.
InitRides ==
    LET route == CHOOSE x \in get_distance_and_duration : TRUE
        first == create_ride_request(<< >>, 1, 1, route)
    IN /\ users = {1}
       /\ volunteers = {1}
       /\ pool = create_volunteer(<< >>, {}, NULL)
       /\ rides = create_ride_request(first, 1, 1, route)
       /\ maps_calls = 2
       /\ call = [c \in Callers |-> Idle]
       /\ scenario = [ride |-> 2, calls |-> << >>]
       /\ found = NoFound
       /\ listing = NoListing
       /\ ClientsIdle

\* The ride ids of the calls: the rides of InitRides and the ids after them.
ListedRideIds == 1 .. (MaxRides + 2)

\* The status filters, offsets and limits of the listings.
StatusFilters == {NoStatus, "pending", "assigned"}
Skips == {DefaultSkip, 1}
Limits == {1, DefaultLimit}

\* GET /rides/ (get_all_ride_requests).
ListRides(status, skip, limit) ==
    /\ listing' =
            [ asked |-> TRUE, status |-> status, skip |-> skip,
              limit |-> limit,
              rows |-> get_ride_requests(rides, status, skip, limit) ]
    /\ UNCHANGED <<users, volunteers, rides, call, scenario, maps_calls,
                 pool, found, clients>>

\* DELETE /rides/{ride_id} (delete_ride_request_by_id).  The handler calls
\* crud.delete_ride_request(db=db, ride_id=ride_id); the TypeError of the
\* call leaves the handler as a 500 response.
DeleteRide(c, ride_id) ==
    LET raised == ~Binds(delete_ride_request_keywords,
                         delete_ride_request_params)
        res == delete_ride_request(rides, ride_id)
        code == IF raised THEN HTTP_500_INTERNAL_SERVER_ERROR
                ELSE IF res.ok THEN HTTP_204_NO_CONTENT
                ELSE HTTP_404_NOT_FOUND
    IN /\ call[c].phase # "write"
       /\ rides' = IF raised THEN rides ELSE res.rides
       /\ call' = MarkRaced(c, ride_id,
            Done("delete", ride_id, NULL, Unread, NoStatus,
                 InFlight(c, ride_id) # {}, code, NoRide))
       /\ scenario' = ScenarioAfter(ride_id, "delete")
       /\ UNCHANGED <<users, volunteers, maps_calls, pool, found, listing,
                 clients>>

NextRides ==
    \/ \E c \in Callers, r \in ListedRideIds, v \in VolunteerIds :
            AssignVolunteer(c, r, r, v)
    \/ \E c \in Callers : WriteUpdate(c)
    \/ \E f \in StatusFilters, s \in Skips, l \in Limits : ListRides(f, s, l)
    \/ \E c \in Callers, r \in ListedRideIds : DeleteRide(c, r)

SpecRides == InitRides /\ [][NextRides]_vars

\* ------------------------------------------------------------- matching
\* ScheduleManager.find_best_volunteer is called by no handler.  It is
\* followed on its own: volunteers are registered with an availability and a
\* location, and the function is called for a ride request.

\* The time slots of an availability and of a requested_time, and the places
\* of a current_location and of a pickup_address.
Slots == {1, 2}
Locations == {1, 2}

\* POST /volunteers/ (create_new_volunteer) with an availability and a
\* current_location.
RegisterVolunteer(availability, current_location) ==
    /\ NextId(DOMAIN pool) <= MaxPool
    /\ pool' = create_volunteer(pool, availability, current_location)
    /\ volunteers' = DOMAIN pool'
    /\ UNCHANGED <<users, rides, call, scenario, maps_calls, found, listing,
                 clients>>

\* A call of find_best_volunteer for a ride request with this requested_time
\* and pickup_address.
FindBestVolunteer(requested_time, pickup_address) ==
    /\ found' =
            [ asked |-> TRUE, requested_time |-> requested_time,
              pickup_address |-> pickup_address,
              volunteer |-> find_best_volunteer(pool,
                    [ requested_time |-> requested_time,
                      pickup_address |-> pickup_address ]) ]
    /\ UNCHANGED <<users, volunteers, rides, call, scenario, maps_calls,
                 pool, listing, clients>>

NextMatching ==
    \/ \E a \in SUBSET Slots, l \in Locations : RegisterVolunteer(a, l)
    \/ \E t \in Slots, l \in Locations : FindBestVolunteer(t, l)

SpecMatching == Init /\ [][NextMatching]_vars

\* ------------------------------------------------------- desktop client
\* fletfrontendcodemain.py: RideApp.refresh_ride_requests draws one card
\* for each ride of the response of GET /rides/, with the three buttons of
\* the ride disabled according to the status in the response.
MaxCards == 3

\* The card of a ride: its status and the `disabled` of its three buttons.
Card(status) ==
    [ status |-> status,
      assign_disabled |-> status # "pending",
      complete_disabled |-> status # "assigned" /\ status # "in_progress",
      cancel_disabled |-> status = "completed" \/ status = "cancelled" ]

\* The responses of GET /rides/ that the client is given: the statuses of
\* up to MaxCards rides.
RideLists == UNION { [1 .. n -> RideStatus] : n \in 0 .. MaxCards }

\* RideApp.refresh_ride_requests with a response of GET /rides/.
RefreshRideRequests(response) ==
    /\ view' = [i \in 1 .. Len(response) |-> Card(response[i])]
    /\ UNCHANGED <<users, volunteers, rides, call, scenario, maps_calls,
                 pool, found, listing, searching_cancelled, page, search>>

NextClient == \E response \in RideLists : RefreshRideRequests(response)

SpecClient == Init /\ [][NextClient]_vars

\* -------------------------------------------------------- standalone GUI
\* projectgui.py: every press of Request Ride clears the shared flag
\* searching_cancelled, shows the searching screen and starts a thread that
\* sleeps, tests the flag, shows the dialog "Volunteer Found!", sleeps, tests
\* the flag again and shows the arrival screen.  Flet runs the click handlers
\* apart from these threads, so a click can fall between a test of the flag
\* and the statements that the test guards.
MaxSearches == 2

\* A search thread:
\*   pc         "sleep2" in time.sleep(2), "show" past the first test,
\*              "sleep3" in time.sleep(3), "arrive" past the second test
\*   cancelled  Cancel Request was pressed on the screen of this search
\*   early      ... while the thread was still in its first sleep
\*   found      the thread has shown the dialog "Volunteer Found!"
\*   arrived    the thread has shown the arrival screen
NewSearch ==
    [ pc |-> "sleep2", cancelled |-> FALSE, early |-> FALSE,
      found |-> FALSE, arrived |-> FALSE ]

\* A click reaches a button of the screen only while no dialog lies over it.
Clickable(screen) == page.screen = screen /\ page.dialog # "open"

\* show_start_screen as the handler of Back and of Back to Home.
show_start_screen ==
    /\ Clickable("user") \/ Clickable("arrival")
    /\ page' = [page EXCEPT !.screen = "start"]
    /\ UNCHANGED <<users, volunteers, rides, call, scenario, maps_calls,
                 pool, found, listing, view, searching_cancelled, search>>

\* show_user_screen as the handler of "I am a User".
show_user_screen ==
    /\ Clickable("start")
    /\ page' = [page EXCEPT !.screen = "user"]
    /\ UNCHANGED <<users, volunteers, rides, call, scenario, maps_calls,
                 pool, found, listing, view, searching_cancelled, search>>

\* request_ride, that is show_searching_screen: the flag is cleared, the
\* searching screen is shown and a new thread is started.
request_ride ==
    /\ Clickable("user")
    /\ Len(search) < MaxSearches
    /\ searching_cancelled' = FALSE
    /\ page' = [page EXCEPT !.screen = "searching"]
    /\ search' = Append(search, NewSearch)
    /\ UNCHANGED <<users, volunteers, rides, call, scenario, maps_calls,
                 pool, found, listing, view>>

\* cancel_search, the handler of Cancel Request on the searching screen,
\* which is the screen of the search started last.
cancel_search ==
    /\ Clickable("searching")
    /\ searching_cancelled' = TRUE
    /\ page' = [page EXCEPT !.screen = "user"]
    /\ search' = [search EXCEPT
            ![Len(search)].cancelled = TRUE,
            ![Len(search)].early = (search[Len(search)].pc = "sleep2")]
    /\ UNCHANGED <<users, volunteers, rides, call, scenario, maps_calls,
                 pool, found, listing, view>>

\* The user closes the dialog (a click beside it).
DismissDialog ==
    /\ page.dialog = "open"
    /\ page' = [page EXCEPT !.dialog = "none"]
    /\ UNCHANGED <<users, volunteers, rides, call, scenario, maps_calls,
                 pool, found, listing, view, searching_cancelled, search>>

\* simulate_volunteer_search: the end of time.sleep(2) and the first test of
\* the flag.
FirstCheck(i) ==
    /\ search[i].pc = "sleep2"
    /\ search' = [search EXCEPT
            ![i].pc = IF searching_cancelled THEN "done" ELSE "show"]
    /\ UNCHANGED <<users, volunteers, rides, call, scenario, maps_calls,
                 pool, found, listing, view, searching_cancelled, page>>

\* simulate_volunteer_search: page.dialog = AlertDialog(...); page.update().
ShowFound(i) ==
    /\ search[i].pc = "show"
    /\ page' = [page EXCEPT !.dialog = "open"]
    /\ search' = [search EXCEPT ![i].pc = "sleep3", ![i].found = TRUE]
    /\ UNCHANGED <<users, volunteers, rides, call, scenario, maps_calls,
                 pool, found, listing, view, searching_cancelled>>

\* simulate_volunteer_search: the end of time.sleep(3) and the second test
\* of the flag.
SecondCheck(i) ==
    /\ search[i].pc = "sleep3"
    /\ search' = [search EXCEPT
            ![i].pc = IF searching_cancelled THEN "done" ELSE "arrive"]
    /\ UNCHANGED <<users, volunteers, rides, call, scenario, maps_calls,
                 pool, found, listing, view, searching_cancelled, page>>

\* simulate_volunteer_search: the dialog is closed and show_arrival_screen()
\* replaces the screen.
ShowArrival(i) ==
    /\ search[i].pc = "arrive"
    /\ page' = [screen |-> "arrival", dialog |-> "none"]
    /\ search' = [search EXCEPT ![i].pc = "done", ![i].arrived = TRUE]
    /\ UNCHANGED <<users, volunteers, rides, call, scenario, maps_calls,
                 pool, found, listing, view, searching_cancelled>>

NextSearch ==
    \/ show_start_screen
    \/ show_user_screen
    \/ request_ride
    \/ cancel_search
    \/ DismissDialog
    \/ \E i \in DOMAIN search : FirstCheck(i)
    \/ \E i \in DOMAIN search : ShowFound(i)
    \/ \E i \in DOMAIN search : SecondCheck(i)
    \/ \E i \in DOMAIN search : ShowArrival(i)

SpecSearch == Init /\ [][NextSearch]_vars

\* ------------------------------------------------------------ properties
\* The calls a caller holds the response of.
Returned(c) == call[c].phase = "done"

\* A call of ScheduleManager that passed its guard and reached
\* crud.update_ride_request, and has returned.
Wrote(c) ==
    /\ Returned(c)
    /\ call[c].op \in {"assign", "complete", "cancel"}
    /\ call[c].code # HTTP_400_BAD_REQUEST

\* The last calls of c and d were on the same ride and overlapped.
Concurrent(c, d) ==
    /\ c # d
    /\ Returned(c) /\ Returned(d)
    /\ call[c].ride = call[d].ride
    /\ call[c].raced /\ call[d].raced

\* In this source no ride ever leaves pending: every write of a status
\* goes through crud.update_ride_request, which raises before it writes.
EveryRidePending ==
    \A r \in DOMAIN rides :
        /\ rides[r].status = "pending"
        /\ rides[r].assigned_volunteer_id = NULL
        /\ rides[r].assigned_time = NULL
        /\ rides[r].completed_time = NULL

\* The edges of the lifecycle table.
LifecycleEdges ==
    { <<"pending", "assigned">>, <<"assigned", "in_progress">>,
      <<"assigned", "completed">>, <<"in_progress", "completed">>,
      <<"pending", "cancelled">>, <<"assigned", "cancelled">>,
      <<"in_progress", "cancelled">> }

\* C1: a ride starts pending, and every change of the status of a ride, in
\* every step of every behaviour, is an edge of the lifecycle table.
C1_OnlyLifecycleEdges ==
    [][ \A r \in DOMAIN rides' :
            IF r \in DOMAIN rides
            THEN \/ rides'[r].status = rides[r].status
                 \/ <<rides[r].status, rides'[r].status>> \in LifecycleEdges
            ELSE rides'[r].status = "pending" ]_vars

\* C1 witness: assign, complete and cancel have all been called, one after
\* the other, on a ride that exists.
C1_Witness ==
    /\ scenario.ride \in DOMAIN rides
    /\ scenario.calls = ScenarioD
    /\ rides[scenario.ride].status = "pending"

\* C3 (as claimed): of two concurrent assignments that both read the ride
\* pending and both found their volunteer, exactly one succeeds, and the ride
\* is assigned to the volunteer of that one.
C3_ExactlyOneAssignmentWins ==
    \A c, d \in Callers :
        ( /\ Concurrent(c, d)
          /\ call[c].op = "assign" /\ call[d].op = "assign"
          /\ call[c].vol # NULL /\ call[d].vol # NULL
          /\ call[c].ride \in DOMAIN rides )
        => \E w \in {c, d} :
            /\ call[w].code = HTTP_200_OK
            /\ \A l \in {c, d} \ {w} : call[l].code # HTTP_200_OK
            /\ call[w].body.assigned_volunteer_id = call[w].vol
            /\ rides[call[w].ride].status = "assigned"

C9_CompletedStaysCompleted ==
    ( /\ scenario.calls = ScenarioD
      /\ scenario.ride \in DOMAIN rides )
    => /\ rides[scenario.ride].status = "completed"
       /\ rides[scenario.ride].completed_time # NULL
       /\ \A c \in Callers :
            ( /\ Returned(c) /\ call[c].op = "cancel"
              /\ call[c].ride = scenario.ride )
            => call[c].code # HTTP_200_OK

\* C10 (as claimed): an assignment that read the ride pending and found its
\* volunteer, with no other call on the ride in flight and the volunteer
\* still there when it returns, answers success, with the ride assigned to
\* that volunteer and an assigned_time.
C10_AssignPendingSucceeds ==
    \A c \in Callers :
        ( /\ Returned(c) /\ call[c].op = "assign"
          /\ call[c].vol # NULL /\ ~call[c].raced
          /\ call[c].vol \in volunteers )
        => /\ call[c].code = HTTP_200_OK
           /\ call[c].body.status = "assigned"
           /\ call[c].body.assigned_volunteer_id = call[c].vol
           /\ call[c].body.assigned_time # NULL

\* C11 (as claimed): after two assignments of existing volunteers, called one
\* after the other on a new ride, the ride is still assigned to the volunteer
\* of the first, with its assigned_time.
C11_SecondAssignmentKeepsFirst ==
    ( /\ scenario.calls = ScenarioC
      /\ scenario.ride \in DOMAIN rides )
    => /\ rides[scenario.ride].status = "assigned"
       /\ rides[scenario.ride].assigned_volunteer_id \in volunteers
       /\ rides[scenario.ride].assigned_time # NULL

\* C12: an assignment whose volunteer id is not in the repository is answered
\* with the 400 of the handler and writes no ride, so a pending ride stays
\* pending with no volunteer and no assigned_time; and a step that writes an
\* assigned_volunteer_id writes the id of a volunteer in the repository.
C12_UnknownVolunteerRejected ==
    [][ /\ \A c \in Callers, r \in RideIds, v \in VolunteerIds :
            ( /\ v \notin volunteers
              /\ call'[c].op = "assign" /\ call'[c].ride = r
              /\ AssignVolunteer(c, r, r, v) )
            => /\ call'[c].phase = "done"
               /\ call'[c].code = HTTP_400_BAD_REQUEST
               /\ rides' = rides
        /\ \A r \in DOMAIN rides \cap DOMAIN rides' :
            LET v == rides'[r].assigned_volunteer_id
            IN (v # NULL /\ v # rides[r].assigned_volunteer_id)
               => v \in volunteers ]_vars

\* C12 witness: an assignment that read a pending ride was rejected (its
\* volunteer was not found), and the ride is pending with no volunteer and
\* no assigned_time.
C12_Witness ==
    \E c \in Callers :
        /\ Returned(c) /\ call[c].op = "assign"
        /\ call[c].seen = "pending"
        /\ call[c].code = HTTP_400_BAD_REQUEST
        /\ call[c].ride \in DOMAIN rides
        /\ rides[call[c].ride].status = "pending"
        /\ rides[call[c].ride].assigned_volunteer_id = NULL
        /\ rides[call[c].ride].assigned_time = NULL

\* C13: an assign, complete or cancel call with a ride id that is not in the
\* repository is answered with the 400 of its handler, and the step leaves
\* users, volunteers and rides as they were.
C13_UnknownRideRejected ==
    [][ \A c \in Callers, r \in RideIds :
            ( /\ r \notin DOMAIN rides
              /\ call'[c].ride = r
              /\ \/ \E v \in VolunteerIds : AssignVolunteer(c, r, r, v)
                 \/ CompleteRide(c, r)
                 \/ CancelRide(c, r) )
            => /\ call'[c].phase = "done"
               /\ call'[c].code = HTTP_400_BAD_REQUEST
               /\ UNCHANGED <<users, volunteers, rides>> ]_vars

\* C13 witness: with a user and a volunteer in the repository and no ride, a
\* complete call and a cancel call have both been answered 400.
C13_Witness ==
    \E c, d \in Callers :
        /\ Returned(c) /\ call[c].op = "complete"
        /\ Returned(d) /\ call[d].op = "cancel"
        /\ call[c].seen = NoStatus /\ call[d].seen = NoStatus
        /\ call[c].code = HTTP_400_BAD_REQUEST
        /\ call[d].code = HTTP_400_BAD_REQUEST
        /\ rides = << >>
        /\ users # {} /\ volunteers # {}

\* C14 (as claimed): after the assignment of an existing volunteer and then a
\* complete call, one after the other on a new ride, the complete call has
\* answered success and the ride is completed with a completed_time.
C14_CompleteAssignedSucceeds ==
    ( /\ scenario.calls = <<"assign", "complete">>
      /\ scenario.ride \in DOMAIN rides )
    => /\ rides[scenario.ride].status = "completed"
       /\ rides[scenario.ride].completed_time # NULL
       /\ \E c \in Callers :
            /\ Returned(c) /\ call[c].op = "complete"
            /\ call[c].ride = scenario.ride
            /\ call[c].code = HTTP_200_OK

\* C15 (as claimed): a cancel call that read the ride pending, assigned or in
\* progress, with no other call on the ride in flight, answers success with
\* the ride cancelled.
C15_CancelSucceeds ==
    \A c \in Callers :
        ( /\ Returned(c) /\ call[c].op = "cancel"
          /\ call[c].seen \in {"pending", "assigned", "in_progress"}
          /\ ~call[c].raced )
        => /\ call[c].code = HTTP_200_OK
           /\ call[c].body.status = "cancelled"

\* C16: a step that adds a ride adds it with status pending and with no
\* assigned volunteer, no assigned_time and no completed_time, and the 201
\* response of the create call returns that row.
C16_CreatedPending ==
    [][ \A r \in DOMAIN rides' \ DOMAIN rides :
            /\ rides'[r].status = "pending"
            /\ rides'[r].assigned_volunteer_id = NULL
            /\ rides'[r].assigned_time = NULL
            /\ rides'[r].completed_time = NULL
            /\ \E c \in Callers :
                /\ call'[c].phase = "done" /\ call'[c].op = "create"
                /\ call'[c].code = HTTP_201_CREATED
                /\ call'[c].ride = r
                /\ call'[c].body = rides'[r] ]_vars

\* C16 witness: a create call has answered 201 with a pending ride, which is
\* the row in the repository.
C16_Witness ==
    \E c \in Callers :
        /\ Returned(c) /\ call[c].op = "create"
        /\ call[c].code = HTTP_201_CREATED
        /\ call[c].body.status = "pending"
        /\ call[c].ride \in DOMAIN rides
        /\ rides[call[c].ride] = call[c].body

\* C17: a create call whose requester id is not in the repository is answered
\* 400, adds no ride and does not call the route provider; and every ride a
\* step adds has a requester that is in the repository.
C17_UnknownRequesterRejected ==
    [][ /\ \A c \in Callers, u \in UserIds, t \in RequestedTimes :
            (u \notin users /\ call'[c].op = "create" /\ RequestRide(c, u, t))
            => /\ call'[c].code = HTTP_400_BAD_REQUEST
               /\ rides' = rides
               /\ maps_calls' = maps_calls
        /\ \A r \in DOMAIN rides' \ DOMAIN rides :
            rides'[r].requester_id \in users ]_vars

\* C17 witness: a create call has been answered 400, there is no ride, and
\* the route provider has not been called.
C17_Witness ==
    \E c \in Callers :
        /\ Returned(c) /\ call[c].op = "create"
        /\ call[c].code = HTTP_400_BAD_REQUEST
        /\ rides = << >>
        /\ maps_calls = 0

\* C19: a step that adds a ride gives it a distance_km and an
\* estimated_duration_minutes, and no step changes either of them on a ride
\* that is already there.
C19_RouteNeverChanges ==
    [][ /\ \A r \in DOMAIN rides' \ DOMAIN rides :
            /\ rides'[r].distance_km # NULL
            /\ rides'[r].estimated_duration_minutes # NULL
        /\ \A r \in DOMAIN rides \cap DOMAIN rides' :
            /\ rides'[r].distance_km = rides[r].distance_km
            /\ rides'[r].estimated_duration_minutes
                    = rides[r].estimated_duration_minutes ]_vars

\* C19 witness: a PUT and an assign, complete or cancel call that passed its
\* guard have both returned for a ride, which has a route of the provider.
C19_Witness ==
    \E c, d \in Callers :
        /\ Returned(c) /\ call[c].op = "update"
        /\ Wrote(d)
        /\ call[c].ride = call[d].ride
        /\ call[c].ride \in DOMAIN rides
        /\ [ distance_km |-> rides[call[c].ride].distance_km,
             estimated_duration_minutes |->
                rides[call[c].ride].estimated_duration_minutes ]
                \in get_distance_and_duration

\* C20: every ride in the repository, and every ride a create call returned
\* with 201, has distance_km > 0 and estimated_duration_minutes > 0; and so
\* has the route the provider computes from any draw of its two ranges.
C20_PositiveRoute ==
    /\ \A r \in DOMAIN rides :
        /\ rides[r].distance_km > 0
        /\ rides[r].estimated_duration_minutes > 0
    /\ \A c \in Callers :
        (Returned(c) /\ call[c].op = "create"
            /\ call[c].code = HTTP_201_CREATED)
        => /\ call[c].body.distance_km > 0
           /\ call[c].body.estimated_duration_minutes > 0
    /\ \A d \in DistanceDraws, f \in RateDraws :
        /\ Round2(d, Thousand) > 0
        /\ Round2(d * f, Thousand * Thousand) > 0

\* C20 witness: a create call has answered 201 and its ride is in the
\* repository with the rounded route of the provider's lowest draws, 1.00 km
\* and 2.01 minutes.
C20_Witness ==
    \E c \in Callers :
        /\ Returned(c) /\ call[c].op = "create"
        /\ call[c].code = HTTP_201_CREATED
        /\ call[c].ride \in DOMAIN rides
        /\ rides[call[c].ride].distance_km = 100
        /\ rides[call[c].ride].estimated_duration_minutes = 201

\* The kind of failure of a call that its handler rejected: the ride id was
\* not found, the volunteer of an assignment was not found, or the status of
\* the ride did not allow the operation.
FailureKind(c) ==
    IF call[c].seen = NoStatus THEN "NotFound"
    ELSE IF call[c].op = "assign" /\ call[c].seen = "pending"
    THEN "UnknownVolunteer"
    ELSE "InvalidTransition"

\* A returned assign, complete or cancel call that its handler rejected
\* after reading the ride.
RejectedCall(c) ==
    /\ Returned(c)
    /\ call[c].op \in {"assign", "complete", "cancel"}
    /\ call[c].code = HTTP_400_BAD_REQUEST
    /\ call[c].seen # Unread

\* C21 (as claimed): two rejected calls whose failures are of different
\* kinds have different response codes.
C21_FailureKindsDistinct ==
    \A c, d \in Callers :
        ( /\ RejectedCall(c) /\ RejectedCall(d)
          /\ FailureKind(c) # FailureKind(d) )
        => call[c].code # call[d].code

\* C22 (as claimed): a call of find_best_volunteer returns only a volunteer
\* whose availability contains the requested time of the ride, and returns
\* none when no volunteer of the pool has such an availability.
C22_MatchesAvailability ==
    [][ found' # found =>
            LET t == found'.requested_time
                fit == {w \in DOMAIN pool : t \in pool[w].availability}
            IN /\ found'.volunteer # NULL => found'.volunteer \in fit
               /\ fit = {} => found'.volunteer = NULL ]_vars

\* The travel time from a current_location to a pickup_address: places on a
\* line, one unit of time per unit of distance.
TravelTime(current_location, pickup_address) ==
    IF current_location < pickup_address
    THEN pickup_address - current_location
    ELSE current_location - pickup_address

\* C23 (as claimed): the volunteer a call of find_best_volunteer returns has
\* the lowest travel time to the pickup address of all the pool, and of the
\* volunteers with that travel time the lowest id.
C23_NearestLowestId ==
    [][ (found' # found /\ found'.volunteer # NULL) =>
            LET v == found'.volunteer
                T(w) == TravelTime(pool[w].current_location,
                                   found'.pickup_address)
            IN \A w \in DOMAIN pool :
                T(v) < T(w) \/ (T(v) = T(w) /\ v <= w) ]_vars

\* The ids of the rides whose status passes a listing's filter.
Matching(rs, status) ==
    {r \in DOMAIN rs : status = NoStatus \/ rs[r].status = status}

\* C25: a GET /rides/ changes no table; the rides it returns pass its status
\* filter (every ride passes when there is none), and they are the rides of
\* the pagination window: in ascending order, the first of them after `skip`
\* rides that pass the filter, `limit` of them or all that are left.
C25_ListingFilters ==
    [][ listing' # listing =>
            LET rows == listing'.rows
                match == Matching(rides, listing'.status)
                rest == IF Cardinality(match) > listing'.skip
                        THEN Cardinality(match) - listing'.skip ELSE 0
            IN /\ UNCHANGED <<users, volunteers, rides>>
               /\ \A i \in 1 .. Len(rows) :
                    /\ rows[i] \in match
                    /\ Cardinality({m \in match : m < rows[i]})
                            = listing'.skip + i - 1
               /\ Len(rows) = IF rest < listing'.limit
                              THEN rest ELSE listing'.limit ]_vars

\* C25 witness: with two pending rides, a listing of the pending rides that
\* skips one has returned the second ride alone.
C25_Witness ==
    /\ listing.asked
    /\ listing.status = "pending" /\ listing.skip = 1
    /\ listing.rows = <<2>>
    /\ Cardinality(DOMAIN rides) = 2

\* C26: a PUT /rides/{ride_id} on an id that does not exist is answered 404,
\* and on an existing ride it is answered 200 with the updated record.
C26_PutAnswers ==
    \A c \in Callers :
        (Returned(c) /\ call[c].op = "update") =>
            IF call[c].seen = NoStatus
            THEN call[c].code = HTTP_404_NOT_FOUND
            ELSE /\ call[c].code = HTTP_200_OK
                 /\ call[c].body # NoRide

\* C27: a DELETE /rides/{ride_id} on a ride that exists removes that ride and
\* no other and reports success (204); on an id that does not exist it
\* reports not found (404) and removes nothing; in both cases every other
\* ride, every volunteer and every user is left as it was.
C27_DeleteRemovesExactlyThatRide ==
    [][ \A c \in Callers, r \in ListedRideIds :
            DeleteRide(c, r) =>
                /\ UNCHANGED <<users, volunteers, pool>>
                /\ \A o \in DOMAIN rides \ {r} :
                        o \in DOMAIN rides' /\ rides'[o] = rides[o]
                /\ DOMAIN rides' = DOMAIN rides \ {r}
                /\ call'[c].code = IF r \in DOMAIN rides
                                   THEN HTTP_204_NO_CONTENT
                                   ELSE HTTP_404_NOT_FOUND ]_vars

\* The updates that the coordinator operations which passed their guard are
\* about to hand to crud.update_ride_request.
PendingUpdates ==
    { update_data(call[c].op, call[c].vol, now) :
        c \in {d \in Callers : call[d].phase = "write"}, now \in Times }

\* C28: no ride is ever in_progress, and no assign, complete or cancel that
\* passed its guard is about to write in_progress: nothing starts a ride.
C28_NeverInProgress ==
    /\ \A r \in DOMAIN rides : rides[r].status # "in_progress"
    /\ \A data \in PendingUpdates : data.status # "in_progress"

\* C28 witness: on a ride that was created, one caller's assignment has gone
\* through its write and returned, and the other caller's cancellation has
\* passed its guard and is about to write.
C28_Witness ==
    \E c, d \in Callers :
        /\ Wrote(c) /\ call[c].op = "assign"
        /\ call[c].ride \in DOMAIN rides
        /\ call[d].phase = "write" /\ call[d].op = "cancel"
        /\ call[d].ride = call[c].ride

\* The rides that hold their volunteer: assigned or in progress.
ActiveRides ==
    {r \in DOMAIN rides : rides[r].status \in {"assigned", "in_progress"}}

C30_MismatchRejectedFirst ==
    [][ \A c \in Callers, r \in RideIds, b \in RideIds \cup {MaxRides + 1},
           v \in VolunteerIds :
            (b # r /\ call'[c].op = "assign" /\ call'[c].ride = r
                   /\ AssignVolunteer(c, r, b, v)) =>
                /\ call'[c].phase = "done"
                /\ call'[c].code = HTTP_400_BAD_REQUEST
                /\ call'[c].seen = Unread
                /\ rides' = rides ]_vars

\* C30 witness: an assignment on a pending ride, with a volunteer in the
\* table, has been turned away with a 400 without the ride being read.
C30_Witness ==
    \E c \in Callers :
        /\ Returned(c) /\ call[c].op = "assign"
        /\ call[c].seen = Unread
        /\ call[c].code = HTTP_400_BAD_REQUEST
        /\ call[c].ride \in DOMAIN rides
        /\ rides[call[c].ride].status = "pending"
        /\ volunteers # {}

\* The operations on one ride that write, or would write, the repository.
MutatingOps == {"assign", "complete", "cancel", "update", "delete"}

\* The rides table after `first` and then `second`, two ride updates.
AfterBoth(first, second) ==
    update_ride_request(
        update_ride_request(rides, first[1], first[2]).rides,
        second[1], second[2]).rides

\* The ride updates of the coordinator operations and of PUT.
AllUpdates ==
    RideUpdates \cup
    { update_data(op, v, now) :
        op \in {"assign", "complete", "cancel"},
        v \in VolunteerIds, now \in Times }

\* C32: a step of an operation on one ride leaves every other ride in the
\* table with every field as it was, whatever other calls are in flight; and
\* two updates of two different rides leave the same table in either order.
C32_RidesIndependent ==
    [][ /\ \A c \in Callers :
            (call'[c] # call[c] /\ call'[c].op \in MutatingOps) =>
                \A B \in DOMAIN rides \ {call'[c].ride} :
                    B \in DOMAIN rides' /\ rides'[B] = rides[B]
        /\ \A A, B \in DOMAIN rides, d1, d2 \in AllUpdates :
            A # B => AfterBoth(<<A, d1>>, <<B, d2>>)
                        = AfterBoth(<<B, d2>>, <<A, d1>>) ]_vars

\* C32 witness: one caller's assignment of a ride has passed its guard and
\* gone through its write, another caller's DELETE of a different ride has
\* returned, and both rides are in the table.
C32_Witness ==
    \E c, d \in Callers :
        /\ Wrote(c) /\ call[c].op = "assign"
        /\ Returned(d) /\ call[d].op = "delete"
        /\ call[c].ride # call[d].ride
        /\ {call[c].ride, call[d].ride} \subseteq DOMAIN rides

\* C33 (as claimed): a cancel that passed its guard on a ride that is
\* pending, assigned or in progress succeeds: its write leaves the ride
\* cancelled, a terminal status, and the call answers 200.
C33_CancelAlwaysReachesTerminal ==
    [][ \A c \in Callers :
            ( /\ call[c].phase = "write" /\ call[c].op = "cancel"
              /\ call'[c].phase = "done"
              /\ call[c].ride \in DOMAIN rides
              /\ rides[call[c].ride].status
                    \in {"pending", "assigned", "in_progress"} )
            => /\ call[c].ride \in DOMAIN rides'
               /\ rides'[call[c].ride].status = "cancelled"
               /\ call'[c].code = HTTP_200_OK ]_vars

\* A ride row of the backend with the status that a card shows.
RowOf(card) == [NoRide EXCEPT !.status = card.status]

\* C35 (as claimed): on every card of the view, Assign is enabled only for
\* a status that the guard of the backend's assign accepts, Complete only
\* for one that the guard of complete accepts, and Cancel exactly for the
\* statuses that the guard of cancel accepts.
C35_ButtonsAgreeWithBackend ==
    \A i \in 1 .. Len(view) :
        LET card == view[i]
            ride_request == RowOf(card)
        IN /\ ~card.assign_disabled => assign_guard(ride_request, TRUE)
           /\ ~card.complete_disabled => complete_guard(ride_request)
           /\ ~card.cancel_disabled <=> cancel_guard(ride_request)

\* C36 (as claimed): once Cancel Request has been pressed on the screen of a
\* search, and as long as no new search is started, no step of the thread of
\* that search shows the dialog "Volunteer Found!" or the arrival screen.
C36_NothingShownAfterCancel ==
    [][ \A i \in DOMAIN search :
            (search[i].cancelled /\ Len(search') = i) =>
                /\ search'[i].found = search[i].found
                /\ search'[i].arrived = search[i].arrived ]_vars

\* The searches with the given outcome of their flags.
Arrivals == {i \in DOMAIN search : search[i].arrived}
NotCancelled == {i \in DOMAIN search : ~search[i].cancelled}

\* C37 (as claimed): a search that was cancelled before its thread woke up
\* shows neither the dialog nor the arrival screen, also when a new search
\* has been started since; and there are never more arrival screens shown
\* than searches that were not cancelled.
C37_CancelledSearchStaysCancelled ==
    /\ \A i \in DOMAIN search :
            search[i].early => ~search[i].found /\ ~search[i].arrived
    /\ Cardinality(Arrivals) <= Cardinality(NotCancelled)

====
